---- MODULE Spec2Model ----
(***************************************************************************)
(* A model of the editing core of cosmic_hex: one HexView session (byte    *)
(* buffer, nibble cursor, undo/redo stacks, saved-depth marker, viewport). *)
(* The file system is outside the model: a save is given the outcome of    *)
(* its write.                                                              *)
(*                                                                         *)
(* Conventions                                                             *)
(*  - A session is a record `hex_view`; every method of HexView is an      *)
(*    operator from a session record to the session record after the call. *)
(*    The actions apply these operators.                                   *)
(*  - Vec<u8> is a sequence of 0..255; Rust index i is TLA+ index i+1.     *)
(*  - f32 pixel quantities are integers; `x as usize` of a non-negative    *)
(*    quotient is integer division.                                        *)
(*  - A Rust panic aborts the process: the session's `panic` field names   *)
(*    the place and no action is enabled afterwards.                       *)
(*  - usize is unbounded here; MaxPos caps the cursor in the guards.       *)
(*  - `hex_view` is one session followed on its own; `app` is the          *)
(*    application (AppModel) with its tabs, each tab holding a session     *)
(*    record of the same kind, driven through the same operators. A        *)
(*    specification moves one of the two and leaves the other alone.       *)
(*  - The session is driven through its own methods and messages. The     *)
(*    integer readout AppModel::view computes from the buffer at each      *)
(*    repaint is not a step of the session.                                *)
(*  - `disk` is the content of the file of the session `hex_view`. Only    *)
(*    SpecDisk follows it; the other specifications leave the file system  *)
(*    outside and keep it empty.                                           *)
(*  - `row_loop` is one run of the loop of numbers_in_row, taken step by   *)
(*    step by SpecLoop; elsewhere numbers_in_row is an operator and        *)
(*    row_loop stays as it is.                                             *)
(***************************************************************************)
EXTENDS Integers, Sequences, FiniteSets, TLC

VARIABLES hex_view, app, disk, row_loop

vars == <<hex_view, app, disk, row_loop>>

\* ------------------------------------------------------------------ bounds
\* Most commands kept on the undo stack.
MaxUndo == 2
\* Largest cursor.position the model follows.
MaxPos == 8
\* Most consecutive edits a round trip is tried with.
MaxEdits == 2
\* Widest viewport the row layout is solved for, in pixels.
MaxWidth == 70
\* Most commands kept on the undo and redo stacks of all tabs of the
\* application together.
MaxTabCommands == 2

\* ------------------------------------------------------------------ inputs
\* File contents a session is opened on.
Buffers == {<<>>, <<65, 66>>}

\* The character typed into a session: '5', a hex digit.
Chars == {53}

\* Characters a sequence of keystrokes is tried with: '5' and 'g' (no hex digit).
Keys == {53, 103}

\* File contents a session that is only searched is opened on.
SearchBuffers ==
    {<<0, 171, 205, 171, 205>>, <<171, 205, 171>>, <<205, 0, 205>>, <<171, 171, 205, 0>>}

\* Needles searched for.
Needles == {<<>>, <<66>>, <<65, 66>>, <<53>>, <<205>>, <<171, 205>>}

\* The text renderer's measure of one monospace cell at the font size a session
\* is created with, in pixels.
font_measure == [width |-> 1, height |-> 2]

\* Viewports the paint pass records (width, height in pixels).
Viewports == {[y |-> 0, width |-> 39, height |-> 2]}

\* Cell measures the text renderer gives for the font sizes configured.
FontMeasures ==
    {[width |-> 1, height |-> 2], [width |-> 2, height |-> 3], [width |-> 3, height |-> 4]}

\* Viewports a window is resized to.
\* Cell measures the loop of numbers_in_row is run with, a character of no
\* width among them.
LoopMeasures == FontMeasures \cup {[width |-> 0, height |-> 2]}

LayoutViewports == {[y |-> 0, width |-> w, height |-> 2] : w \in 0..MaxWidth}

\* Canonical paths of the files opened.
Paths == {"a", "b"}

\* What is on disk at a path.
FileData(path) == IF path = "a" THEN <<65>> ELSE <<66>>

\* What std::fs::read gives for a path: the bytes, or an error.
ReadResults(path) ==
    {[ok |-> TRUE, data |-> FileData(path)], [ok |-> FALSE, data |-> <<>>]}

\* Search patterns entered: "", "AB", "A B", " AB" and "42".
Patterns == {<<>>, <<65, 66>>, <<65, 32, 66>>, <<32, 65, 66>>, <<52, 50>>}

\* Messages the hex view widget publishes to the active tab.
Messages ==
    {[type |-> "TypeChar", ch |-> 53, position |-> 0],
     [type |-> "SwitchMode", ch |-> 0, position |-> 0],
     [type |-> "MoveCaret", ch |-> 0, position |-> 3]}

\* The file a session that is scrolled is opened on: three rows of two bytes.
ScrollBuffer == <<171, 205, 0, 0, 171, 205>>

\* The viewports of a window one or two rows high, scrolled to each row.
ScrollViewports == {[y |-> y, width |-> 39, height |-> h] : y \in {0, 2, 4}, h \in {2, 4}}

\* Pixel columns clicked.
ClickXs == {8, 9, 11, 16, 23, 24, 26}

Min(S) == CHOOSE x \in S : \A y \in S : x <= y
Max(S) == CHOOSE x \in S : \A y \in S : x >= y

\* ------------------------------------------------------------------ theme
\* A mutant of calc_cell_width: a cell takes back the width of its character.
calc_cell_width_takes_back(fm) == 0 - fm.width

calc_cell_width(fm) == fm.width * 2 + 5

calc_offset_margin_width(fm) == fm.width * 8 + 10

hex_ascii_spacing == 5

\* ------------------------------------------------------------------ buffer
len(s) == Len(s.data)

\* A mutant of set_byte: only the low nibble of the value is written.
set_byte_low_nibble(data, offset, value) == [data EXCEPT ![offset + 1] = value % 16]

set_byte(data, offset, value) == [data EXCEPT ![offset + 1] = value]

get_byte(data, offset) == data[offset + 1]

\* A 32-bit word is kept as its two 16-bit halves (the integers of the checker
\* are 32-bit signed): lo holds bits 0..15, hi bits 16..31. ok is FALSE when a
\* get_byte indexed past the end of the data, which panics.
\* A mutant of get_u32: the first byte is the most significant one.
get_u32_big_endian(data, offset) ==
    IF offset + 3 >= Len(data)
    THEN [ok |-> FALSE, lo |-> 0, hi |-> 0]
    ELSE [ok |-> TRUE,
          lo |-> get_byte(data, offset + 3) + get_byte(data, offset + 2) * 256,
          hi |-> get_byte(data, offset + 1) + get_byte(data, offset) * 256]

\* The loop of get_u32 from byte i on: result |= (byte as u32) << (i * 8).
RECURSIVE get_u32_loop(_, _, _, _)
get_u32_loop(data, offset, i, result) ==
    IF i = 4 THEN result
    ELSE IF offset + i >= Len(data) THEN [result EXCEPT !.ok = FALSE]
    ELSE LET byte == get_byte(data, offset + i)
         IN  get_u32_loop(data, offset, i + 1,
                 IF i < 2
                 THEN [result EXCEPT !.lo = @ + byte * 2^(i * 8)]
                 ELSE [result EXCEPT !.hi = @ + byte * 2^((i - 2) * 8)])

get_u32(data, offset) == get_u32_loop(data, offset, 0, [ok |-> TRUE, lo |-> 0, hi |-> 0])

\* (byte as i32) << shift: the bits shifted into bit 31 make the value negative.
shl_i32(byte, shift) ==
    IF shift = 24 /\ byte >= 128 THEN (byte - 256) * 2^24 ELSE byte * 2^shift

\* The loop of get_i32 from byte i on: result |= (byte as i32) << (i * 8); the
\* bits or-ed are disjoint, so the or is a sum.
RECURSIVE get_i32_loop(_, _, _, _)
get_i32_loop(data, offset, i, result) ==
    IF i = 4 THEN result
    ELSE IF offset + i >= Len(data) THEN [result EXCEPT !.ok = FALSE]
    ELSE get_i32_loop(data, offset, i + 1,
             [result EXCEPT !.value = @ + shl_i32(get_byte(data, offset + i), i * 8)])

get_i32(data, offset) == get_i32_loop(data, offset, 0, [ok |-> TRUE, value |-> 0])

\* ------------------------------------------------------------------ layout
\* The width of a row of i bytes: the left side of the loop's comparison.
row_width(i, fm) ==
    calc_offset_margin_width(fm) + i * calc_cell_width(fm) + hex_ascii_spacing + i * fm.width

\* A mutant of numbers_in_row_loop: the loop also stops on an exact fit.
RECURSIVE numbers_in_row_loop_ge(_, _, _)
numbers_in_row_loop_ge(i, fm, width) ==
    IF calc_offset_margin_width(fm) + i * calc_cell_width(fm) + hex_ascii_spacing
         + i * fm.width >= width
    THEN i - 1
    ELSE numbers_in_row_loop_ge(i + 1, fm, width)

RECURSIVE numbers_in_row_loop(_, _, _)
numbers_in_row_loop(i, fm, width) ==
    IF calc_offset_margin_width(fm) + i * calc_cell_width(fm) + hex_ascii_spacing
         + i * fm.width > width
    THEN i - 1
    ELSE numbers_in_row_loop(i + 1, fm, width)

\* A mutant of numbers_in_row: the loop starts at one byte.
numbers_in_row_from_one(s) == numbers_in_row_loop(1, s.font_measure, s.viewport.width)

\* A mutant of numbers_in_row: the count is kept in two bits.
numbers_in_row_two_bits(s) ==
    numbers_in_row_loop(2, s.font_measure, s.viewport.width) % 4

numbers_in_row(s) == numbers_in_row_loop(2, s.font_measure, s.viewport.width)

\* No run of the loop is followed.
no_loop == [pc |-> "idle", i |-> 0, font_measure |-> font_measure, width |-> 0, result |-> 0]

\* ------------------------------------------------------------------ session
\* HexView::new: the session a tab is opened with.
new(buffer) ==
    [data |-> buffer,
     position |-> 0,
     in_hex |-> "Hex",
     focus |-> TRUE,
     font_measure |-> font_measure,
     viewport |-> [y |-> 0, width |-> 0, height |-> 0],
     last_save |-> 0,
     undo_buffer |-> <<>>,
     redo_buffer |-> <<>>,
     panic |-> "none"]

is_dirty(s) == Len(s.undo_buffer) # s.last_save

\* usize::clamp(min, max).
clamp(x, lo, hi) == IF x < lo THEN lo ELSE IF x > hi THEN hi ELSE x

saturating_sub(a, b) == IF a >= b THEN a - b ELSE 0

\* Message::MoveCaret(position). With an empty buffer `len() - 1` overflows:
\* a build with overflow checks panics, one without wraps to usize::MAX and
\* the clamp keeps every position (wrapping = TRUE).
MoveCaret(s, p, wrapping) ==
    IF len(s) = 0
    THEN IF wrapping
         THEN [s EXCEPT !.position = p]
         ELSE [s EXCEPT !.panic = "MoveCaret"]
    ELSE [s EXCEPT !.position = clamp(p, 0, (len(s) - 1) * 2)]

\* ------------------------------------------------------------------ undo
UndoChangeByte(position, old_caret_pos, old_value, new_caret_pos, new_value) ==
    [position |-> position,
     old_caret_pos |-> old_caret_pos,
     old_value |-> old_value,
     new_caret_pos |-> new_caret_pos,
     new_value |-> new_value]

\* A mutant of op_undo: the old byte is restored, the caret is left alone.
op_undo_keeps_caret(op, s) ==
    IF op.position >= len(s)
    THEN [s EXCEPT !.panic = "set_byte"]
    ELSE [s EXCEPT !.data = set_byte(s.data, op.position, op.old_value)]

\* UndoOperation::undo for UndoChangeByte.
op_undo(op, s) ==
    IF op.position >= len(s)
    THEN [s EXCEPT !.panic = "set_byte"]
    ELSE [s EXCEPT !.data = set_byte(s.data, op.position, op.old_value),
                   !.position = op.old_caret_pos]

\* UndoOperation::redo for UndoChangeByte.
op_redo(op, s) ==
    IF op.position >= len(s)
    THEN [s EXCEPT !.panic = "set_byte"]
    ELSE [s EXCEPT !.data = set_byte(s.data, op.position, op.new_value),
                   !.position = op.new_caret_pos]

\* A mutant of commit_operation: the redo stack is kept.
commit_keeps_redo(s, operation) ==
    LET r == op_redo(operation, s)
    IN  IF r.panic # "none" THEN r
        ELSE [r EXCEPT !.undo_buffer = Append(s.undo_buffer, operation)]

commit_operation(s, operation) ==
    LET r == op_redo(operation, s)
    IN  IF r.panic # "none" THEN r
        ELSE [r EXCEPT !.redo_buffer = <<>>,
                       !.undo_buffer = Append(s.undo_buffer, operation)]

\* A mutant of undo: the popped command is not kept for redo.
undo_forgets(s) ==
    IF s.undo_buffer = <<>> THEN s
    ELSE LET n == Len(s.undo_buffer)
             op == s.undo_buffer[n]
             popped == [s EXCEPT !.undo_buffer = SubSeq(s.undo_buffer, 1, n - 1)]
         IN  op_undo(op, popped)

undo(s) ==
    IF s.undo_buffer = <<>> THEN s
    ELSE LET n == Len(s.undo_buffer)
             op == s.undo_buffer[n]
             popped == [s EXCEPT !.undo_buffer = SubSeq(s.undo_buffer, 1, n - 1)]
             r == op_undo(op, popped)
         IN  IF r.panic # "none" THEN r
             ELSE [r EXCEPT !.redo_buffer = Append(s.redo_buffer, op)]

\* A mutant of redo: the popped command is undone again instead of redone.
redo_undoes(s) ==
    IF s.redo_buffer = <<>> THEN s
    ELSE LET n == Len(s.redo_buffer)
             op == s.redo_buffer[n]
             popped == [s EXCEPT !.redo_buffer = SubSeq(s.redo_buffer, 1, n - 1)]
             r == op_undo(op, popped)
         IN  IF r.panic # "none" THEN r
             ELSE [r EXCEPT !.undo_buffer = Append(s.undo_buffer, op)]

redo(s) ==
    IF s.redo_buffer = <<>> THEN s
    ELSE LET n == Len(s.redo_buffer)
             op == s.redo_buffer[n]
             popped == [s EXCEPT !.redo_buffer = SubSeq(s.redo_buffer, 1, n - 1)]
             r == op_redo(op, popped)
         IN  IF r.panic # "none" THEN r
             ELSE [r EXCEPT !.undo_buffer = Append(s.undo_buffer, op)]

\* ------------------------------------------------------------------ typing
is_ascii_hexdigit(ch) == ch \in (48..57) \cup (65..70) \cup (97..102)

\* A mutant of to_digit: the digit is read as a decimal one.
to_digit_decimal(ch) == ch - 48

\* char::to_digit(16) of a hex digit.
to_digit(ch) ==
    IF ch \in 48..57 THEN ch - 48
    ELSE IF ch \in 65..70 THEN ch - 55
    ELSE ch - 87

\* A mutant of TypeChar: in Ascii mode the cursor moves on by two nibbles from
\* where it is.
TypeChar_ascii_plus_two(s, ch) ==
    LET first_char == s.position % 2 = 0
        pos == s.position \div 2
    IN  IF pos >= len(s)
        THEN [s EXCEPT !.panic = "TypeChar"]
        ELSE LET old_byte == s.data[pos + 1]
             IN  IF s.in_hex = "Hex"
                 THEN IF is_ascii_hexdigit(ch)
                      THEN LET digit == to_digit(ch) % 256
                               new_byte == IF first_char
                                           THEN (old_byte % 16) + ((digit * 16) % 256)
                                           ELSE (old_byte \div 16) * 16 + digit
                           IN  commit_operation(s,
                                   UndoChangeByte(pos, s.position, old_byte,
                                                  s.position + 1, new_byte))
                      ELSE s
                 ELSE LET new_byte == ch % 256
                      IN  commit_operation(s,
                              UndoChangeByte(pos, s.position, old_byte,
                                             s.position + 2, new_byte))

\* A mutant of TypeChar: in Hex mode a character that is no hex digit is
\* written as in Ascii mode.
TypeChar_writes_any_key(s, ch) ==
    LET first_char == s.position % 2 = 0
        pos == s.position \div 2
    IN  IF pos >= len(s)
        THEN [s EXCEPT !.panic = "TypeChar"]
        ELSE LET old_byte == s.data[pos + 1]
             IN  IF s.in_hex = "Hex" /\ is_ascii_hexdigit(ch)
                 THEN LET digit == to_digit(ch) % 256
                          new_byte == IF first_char
                                      THEN (old_byte % 16) + ((digit * 16) % 256)
                                      ELSE (old_byte \div 16) * 16 + digit
                      IN  commit_operation(s,
                              UndoChangeByte(pos, s.position, old_byte,
                                             s.position + 1, new_byte))
                 ELSE LET new_byte == ch % 256
                      IN  commit_operation(s,
                              UndoChangeByte(pos, s.position, old_byte,
                                             pos * 2 + 2, new_byte))

\* Message::TypeChar(ch).
TypeChar(s, ch) ==
    LET first_char == s.position % 2 = 0
        pos == s.position \div 2
    IN  IF pos >= len(s)
        THEN [s EXCEPT !.panic = "TypeChar"]
        ELSE LET old_byte == s.data[pos + 1]
             IN  IF s.in_hex = "Hex"
                 THEN IF is_ascii_hexdigit(ch)
                      THEN LET digit == to_digit(ch) % 256
                               new_byte == IF first_char
                                           THEN (old_byte % 16) + ((digit * 16) % 256)
                                           ELSE (old_byte \div 16) * 16 + digit
                           IN  commit_operation(s,
                                   UndoChangeByte(pos, s.position, old_byte,
                                                  s.position + 1, new_byte))
                      ELSE s
                 ELSE LET new_byte == ch % 256
                      IN  commit_operation(s,
                              UndoChangeByte(pos, s.position, old_byte,
                                             pos * 2 + 2, new_byte))

\* ------------------------------------------------------------------ save
\* A mutant of save: the file is written, the marker is not moved.
save_keeps_marker(s, write_ok) == s

\* A mutant of save: the history is dropped with the save.
save_drops_history(s, write_ok) ==
    [s EXCEPT !.last_save = 0, !.undo_buffer = <<>>, !.redo_buffer = <<>>]

\* HexView::save: the marker is set, then the file is written; write_ok is the
\* outcome of std::fs::write. An Err is returned with the marker already set.
save(s, write_ok) == [s EXCEPT !.last_save = Len(s.undo_buffer)]

\* What save returns.
save_result(s, write_ok) == IF write_ok THEN "Ok" ELSE "Err"

\* ------------------------------------------------------------------ search
\* slice.starts_with(needle) for the slice data[i..], i <= len.
starts_with(data, i, needle) ==
    /\ Len(needle) <= Len(data) - i
    /\ \A j \in 1..Len(needle) : data[i + j] = needle[j]

\* The loop of find_next from index i: the match index, or -1.
RECURSIVE find_next_loop(_, _, _)
find_next_loop(data, i, needle) ==
    IF i >= Len(data) THEN -1
    ELSE IF starts_with(data, i, needle) THEN i
    ELSE find_next_loop(data, i + 1, needle)

\* A mutant of find_next_match: the scan starts after the cursor's byte.
find_next_match_after_cursor(s, needle) ==
    find_next_loop(s.data, s.position \div 2 + 1, needle)

find_next_match(s, needle) == find_next_loop(s.data, s.position \div 2, needle)

\* What find_next returns.
find_next_found(s, needle) == find_next_match(s, needle) # -1

\* A mutant of find_next: a search without a match goes back to the start of
\* the buffer.
find_next_rewinds(s, needle) ==
    LET i == find_next_match(s, needle)
    IN  IF i = -1 THEN [s EXCEPT !.position = 0] ELSE [s EXCEPT !.position = i * 2]

\* A mutant of find_next: a match also puts the session in Hex mode.
find_next_sets_hex(s, needle) ==
    LET i == find_next_match(s, needle)
    IN  IF i = -1 THEN s ELSE [s EXCEPT !.position = i * 2, !.in_hex = "Hex"]

find_next(s, needle) ==
    LET i == find_next_match(s, needle)
    IN  IF i = -1 THEN s ELSE [s EXCEPT !.position = i * 2]

\* The loop of find_previous from index i downwards: the match index, -1 for
\* no match, -2 when data[i..] is sliced past the end of the buffer.
RECURSIVE find_previous_loop(_, _, _)
find_previous_loop(data, i, needle) ==
    IF i < 0 THEN -1
    ELSE IF i > Len(data) THEN -2
    ELSE IF starts_with(data, i, needle) THEN i
    ELSE find_previous_loop(data, i - 1, needle)

find_previous_match(s, needle) ==
    find_previous_loop(s.data, s.position \div 2 - 1, needle)

\* What find_previous returns (when it returns).
find_previous_found(s, needle) == find_previous_match(s, needle) >= 0

find_previous(s, needle) ==
    LET i == find_previous_match(s, needle)
    IN  IF i = -2 THEN [s EXCEPT !.panic = "find_previous"]
        ELSE IF i = -1 THEN s
        ELSE [s EXCEPT !.position = i * 2]

\* ------------------------------------------------------------------ keys
\* HexViewWidget::on_event, KeyPressed (the widget has the focus): each
\* navigation key publishes MoveCaret with the position computed here.
ArrowDown(s, wrapping) == MoveCaret(s, s.position + numbers_in_row(s) * 2, wrapping)

ArrowUp(s, wrapping) ==
    MoveCaret(s, saturating_sub(s.position, numbers_in_row(s) * 2), wrapping)

ArrowLeft(s, wrapping) == MoveCaret(s, saturating_sub(s.position, 1), wrapping)

ArrowRight(s, wrapping) == MoveCaret(s, s.position + 1, wrapping)

\* A mutant of Home: the key always goes to the start of the buffer.
Home_buffer_start(s, control, wrapping) == MoveCaret(s, 0, wrapping)

Home(s, control, wrapping) ==
    IF control
    THEN MoveCaret(s, 0, wrapping)
    ELSE LET n == numbers_in_row(s) * 2
         IN  MoveCaret(s, s.position - (s.position % n), wrapping)

End(s, control, wrapping) ==
    IF control
    THEN MoveCaret(s, saturating_sub(len(s), 1) * 2, wrapping)
    ELSE LET n == numbers_in_row(s) * 2
         IN  MoveCaret(s, s.position - (s.position % n) + n - 2, wrapping)

SwitchMode(s) == [s EXCEPT !.in_hex = IF s.in_hex = "Hex" THEN "Ascii" ELSE "Hex"]

\* Rows shown by one page: viewport height / font height, as usize.
line_count(s) == s.viewport.height \div s.font_measure.height

PageUp(s) ==
    [s EXCEPT !.position =
        saturating_sub(s.position, line_count(s) * numbers_in_row(s) * 2)]

\* The clamp of PageDown is computed and dropped (`let _ = ...`).
PageDown(s) ==
    [s EXCEPT !.position = s.position + line_count(s) * numbers_in_row(s) * 2]

\* Message::SetFocus(focus).
SetFocus(s, focus) == [s EXCEPT !.focus = focus]

\* ------------------------------------------------------------------ mouse
\* The widget's bounds: layout() gives it the viewport's width and one row per
\* numbers_in_row bytes, plus one.
bounds(s) ==
    [width |-> s.viewport.width,
     height |-> (len(s) \div numbers_in_row(s) + 1) * s.font_measure.height]

\* cursor.is_over(bounds), for a point relative to the bounds' origin.
is_over(s, point) ==
    /\ 0 <= point.x /\ point.x < bounds(s).width
    /\ 0 <= point.y /\ point.y < bounds(s).height

\* Message::Click(point).
Click(s, point) ==
    LET n == numbers_in_row(s)
        char_width == s.font_measure.width
        left_margin == 9 * char_width
        x == point.x - left_margin
        cell_width == calc_cell_width(s.font_measure)
        numbers_width == n * cell_width
        text_width == n * char_width
        row == point.y \div s.font_measure.height
    IN  IF x >= 0
        THEN IF x <= numbers_width
             THEN LET clicked_cell == x \div cell_width
                      clicked_cell_x == x - clicked_cell * cell_width
                      position == (row * n + clicked_cell) * 2
                  IN  [s EXCEPT !.position = IF clicked_cell_x > char_width
                                              THEN position + 1 ELSE position,
                                !.in_hex = "Hex"]
             ELSE LET x2 == x - numbers_width
                  IN  IF x2 < text_width
                      THEN [s EXCEPT !.position = (row * n + x2 \div char_width) * 2,
                                     !.in_hex = "Ascii"]
                      ELSE s
        ELSE s

\* HexViewWidget::draw records the viewport it paints.
draw(s, vp) == [s EXCEPT !.viewport = vp]

\* HexView::update_font: the cell is measured again; measure is what the text
\* renderer gives for the font size now configured.
update_font(s, measure) == [s EXCEPT !.font_measure = measure]

\* ------------------------------------------------------------------ scrolling
\* Task::none().
Task_none == [scroll |-> FALSE, y |-> 0]

\* scrollable::scroll_to with AbsoluteOffset { x: 0.0, y }.
scroll_to(y) == [scroll |-> TRUE, y |-> y]

\* HexView::scroll_to_caret: the task for the cursor's row.
scroll_to_caret(s) ==
    LET row == (s.position \div (numbers_in_row(s) * 2)) * s.font_measure.height
        y == s.viewport.y
        height == s.viewport.height
    IN  IF row < y THEN scroll_to(row)
        ELSE IF row > y + height THEN scroll_to(row + s.font_measure.height - height)
        ELSE Task_none

\* The task Message::MoveCaret(p) returns.
MoveCaret_task(s, p, wrapping) ==
    LET r == MoveCaret(s, p, wrapping)
    IN  IF r.panic # "none" THEN Task_none ELSE scroll_to_caret(r)

\* The task Message::PageUp returns.
PageUp_task(s) == scroll_to(Max({s.viewport.y - s.viewport.height, 0}))

\* The task Message::PageDown returns.
PageDown_task(s) == scroll_to(s.viewport.y + s.viewport.height)

\* The task Action::FindNext and Action::FindPrevious return: update_tab()
\* redraws and gives Task::none().
update_tab_task == Task_none

\* ------------------------------------------------------------------ application
\* AppModel::init: no tab, no needle. A tab is its canonical path (the path
\* field of its HexView) and its session.
AppModel_init ==
    [tab_model |-> <<>>,
     active |-> 0,
     recent_files |-> <<>>,
     search_pattern |-> <<>>,
     needle |-> <<>>,
     dialog_page_opt |-> [page |-> "None", entity |-> 0],
     panic |-> "none"]

\* HexView::update for the messages of Messages.
update(s, message) ==
    CASE message.type = "MoveCaret" -> MoveCaret(s, message.position, TRUE)
      [] message.type = "TypeChar" -> TypeChar(s, message.ch)
      [] message.type = "SwitchMode" -> SwitchMode(s)
      [] OTHER -> s

\* tab_model.data_mut(entity) is Some: the entity is a tab.
is_tab(a, entity) == entity \in DOMAIN a.tab_model

\* The tab `entity` gets the session r; a panic in the session ends the process.
with_session(a, entity, r) ==
    [a EXCEPT !.tab_model[entity].hex_view = r, !.panic = r.panic]

\* A mutant of open_tab: the recent files are brought up to date before the
\* file is read.
open_tab_recent_first(a, path, canonical_ok, read) ==
    IF ~canonical_ok THEN a
    ELSE IF \E i \in DOMAIN a.tab_model : a.tab_model[i].path = path
    THEN [a EXCEPT !.active = CHOOSE i \in DOMAIN a.tab_model : a.tab_model[i].path = path]
    ELSE LET kept == SelectSeq(a.recent_files, LAMBDA x : x # path)
             recent == <<path>> \o kept
             b == [a EXCEPT !.recent_files = SubSeq(recent, 1, Min({10, Len(recent)}))]
         IN  IF ~read.ok THEN b
             ELSE [b EXCEPT
                      !.tab_model = Append(a.tab_model, [path |-> path, hex_view |-> new(read.data)]),
                      !.active = Len(a.tab_model) + 1]

\* AppModel::open_tab(path): canonical_ok is the outcome of fs::canonicalize
\* (path is the canonical path), read the outcome of fs::read.
open_tab(a, path, canonical_ok, read) ==
    IF ~canonical_ok THEN a
    ELSE IF \E i \in DOMAIN a.tab_model : a.tab_model[i].path = path
    THEN [a EXCEPT !.active = CHOOSE i \in DOMAIN a.tab_model : a.tab_model[i].path = path]
    ELSE IF ~read.ok THEN a
    ELSE LET kept == SelectSeq(a.recent_files, LAMBDA x : x # path)
             recent == <<path>> \o kept
         IN  [a EXCEPT
                 !.recent_files = SubSeq(recent, 1, Min({10, Len(recent)})),
                 !.tab_model = Append(a.tab_model, [path |-> path, hex_view |-> new(read.data)]),
                 !.active = Len(a.tab_model) + 1]

\* Action::TabActivate(entity).
TabActivate(a, entity) == [a EXCEPT !.active = entity]

\* Action::HexAction(msg): the message goes to the active tab.
HexAction(a, msg) ==
    IF is_tab(a, a.active)
    THEN with_session(a, a.active, update(a.tab_model[a.active].hex_view, msg))
    ELSE a

\* Action::Save(entity_opt): entity 0 is None, the active tab.
Save(a, entity_opt, write_ok) ==
    LET tab_id == IF entity_opt = 0 THEN a.active ELSE entity_opt
    IN  IF is_tab(a, tab_id)
        THEN with_session(a, tab_id, save(a.tab_model[tab_id].hex_view, write_ok))
        ELSE a

\* A mutant of Undo: every tab undoes its last command.
Undo_every_tab(a) ==
    [a EXCEPT !.tab_model =
        [i \in DOMAIN a.tab_model |->
            [a.tab_model[i] EXCEPT !.hex_view = undo(a.tab_model[i].hex_view)]]]

\* Action::Undo.
Undo(a) ==
    IF is_tab(a, a.active)
    THEN with_session(a, a.active, undo(a.tab_model[a.active].hex_view))
    ELSE a

\* Action::Redo.
Redo(a) ==
    IF is_tab(a, a.active)
    THEN with_session(a, a.active, redo(a.tab_model[a.active].hex_view))
    ELSE a

\* x | y on unsigned integers.
RECURSIVE bit_or(_, _)
bit_or(x, y) ==
    IF x = 0 THEN y
    ELSE IF y = 0 THEN x
    ELSE (IF x % 2 = 1 \/ y % 2 = 1 THEN 1 ELSE 0) + 2 * bit_or(x \div 2, y \div 2)

\* The loop of get_pattern_needle over the characters from index i on
\* (chars().enumerate()); panic is set by pop().unwrap() on an empty vector.
RECURSIVE get_pattern_needle_loop(_, _, _)
get_pattern_needle_loop(pattern, i, res) ==
    IF i >= Len(pattern) THEN [res |-> res, panic |-> FALSE]
    ELSE LET c == pattern[i + 1]
         IN  IF ~is_ascii_hexdigit(c)
             THEN get_pattern_needle_loop(pattern, i + 1, res)
             ELSE LET d == to_digit(c)
                  IN  IF i % 2 = 0
                      THEN get_pattern_needle_loop(pattern, i + 1, Append(res, (d * 16) % 256))
                      ELSE IF res = <<>>
                           THEN [res |-> res, panic |-> TRUE]
                           ELSE LET a == res[Len(res)]
                                IN  get_pattern_needle_loop(pattern, i + 1,
                                        Append(SubSeq(res, 1, Len(res) - 1), bit_or(a, d)))

\* AppModel::get_pattern_needle for a search pattern.
get_pattern_needle(pattern) == get_pattern_needle_loop(pattern, 0, <<>>)

\* Action::SearchPatternChanged(value).
SearchPatternChanged(a, value) ==
    LET r == get_pattern_needle(value)
    IN  IF r.panic
        THEN [a EXCEPT !.search_pattern = value, !.panic = "get_pattern_needle"]
        ELSE [a EXCEPT !.search_pattern = value, !.needle = r.res]

\* Action::FindNext.
FindNext(a) ==
    IF is_tab(a, a.active)
    THEN with_session(a, a.active, find_next(a.tab_model[a.active].hex_view, a.needle))
    ELSE a

\* Action::FindPrevious.
FindPrevious(a) ==
    IF is_tab(a, a.active)
    THEN with_session(a, a.active, find_previous(a.tab_model[a.active].hex_view, a.needle))
    ELSE a

\* Action::PromptSaveChanges(entity).
PromptSaveChanges(a, entity) ==
    [a EXCEPT !.dialog_page_opt = [page |-> "PromptSaveClose", entity |-> entity]]

\* Action::DialogCancel.
DialogCancel(a) == [a EXCEPT !.dialog_page_opt = [page |-> "None", entity |-> 0]]

\* tab_model.activate_position(position), positions counted from 1: nothing
\* when there is no tab at the position.
activate_position(a, position) ==
    IF position \in DOMAIN a.tab_model THEN [a EXCEPT !.active = position] ELSE a

\* tab_model.remove(entity). A tab's entity is its place in tab_model, so the
\* entities after the removed one move down by one; the removed entity, where
\* it is still held, becomes one that is no tab (0 for the active tab, -1 in
\* the dialog).
remove(a, entity) ==
    IF ~is_tab(a, entity) THEN a
    ELSE [a EXCEPT
             !.tab_model = SubSeq(@, 1, entity - 1) \o SubSeq(@, entity + 1, Len(@)),
             !.active = IF @ = entity THEN 0 ELSE IF @ > entity THEN @ - 1 ELSE @,
             !.dialog_page_opt.entity =
                 IF @ = entity THEN -1 ELSE IF @ > entity THEN @ - 1 ELSE @]

\* Action::TabCloseForce(entity): a neighbour is activated, the tab removed.
TabCloseForce(a, entity) ==
    IF is_tab(a, entity)
    THEN remove(IF entity > 1
                THEN activate_position(a, entity - 1)
                ELSE activate_position(a, entity + 1), entity)
    ELSE a

\* A mutant of TabClose: the tab is closed without asking.
TabClose_without_asking(a, entity_opt) ==
    LET entity == IF entity_opt = 0 THEN a.active ELSE entity_opt
    IN  TabCloseForce(a, entity)

\* Action::TabClose(entity_opt): entity 0 is None, the active tab.
TabClose(a, entity_opt) ==
    LET entity == IF entity_opt = 0 THEN a.active ELSE entity_opt
    IN  IF is_tab(a, entity)
        THEN IF is_dirty(a.tab_model[entity].hex_view)
             THEN PromptSaveChanges(TabActivate(a, entity), entity)
             ELSE TabCloseForce(a, entity)
        ELSE a

\* ------------------------------------------------------------------ actions
Running == hex_view.panic = "none"

\* The session goes to r.
Step(r) ==
    /\ Running
    /\ r.position <= MaxPos
    /\ Len(r.undo_buffer) <= MaxUndo
    /\ hex_view' = r
    /\ UNCHANGED <<app, disk, row_loop>>

Init == app = AppModel_init /\ disk = <<>> /\ row_loop = no_loop /\ \E b \in Buffers : hex_view = new(b)

DoDraw == \E vp \in Viewports : Step(draw(hex_view, vp))

DoArrowDown == \E w \in BOOLEAN : Step(ArrowDown(hex_view, w))

DoArrowUp == \E w \in BOOLEAN : Step(ArrowUp(hex_view, w))

DoArrowLeft == \E w \in BOOLEAN : Step(ArrowLeft(hex_view, w))

DoArrowRight == \E w \in BOOLEAN : Step(ArrowRight(hex_view, w))

DoHome == \E c \in BOOLEAN, w \in BOOLEAN : Step(Home(hex_view, c, w))

DoEnd == \E c \in BOOLEAN, w \in BOOLEAN : Step(End(hex_view, c, w))

DoSwitchMode == Step(SwitchMode(hex_view))

DoPageUp == Step(PageUp(hex_view))

DoPageDown == Step(PageDown(hex_view))

DoClick ==
    \E x \in ClickXs, row \in 0..(bounds(hex_view).height \div hex_view.font_measure.height) :
        LET point == [x |-> x, y |-> row * hex_view.font_measure.height]
        IN  /\ is_over(hex_view, point)
            /\ Step(Click(hex_view, point))

DoTypeChar == \E ch \in Chars : Step(TypeChar(hex_view, ch))

DoUndo == Step(undo(hex_view))

DoRedo == Step(redo(hex_view))

DoFindNext == \E needle \in Needles : Step(find_next(hex_view, needle))

DoFindPrevious == \E needle \in Needles : Step(find_previous(hex_view, needle))

\* Action::Save: the write succeeds or fails; a failure is only logged.
DoSave == \E write_ok \in BOOLEAN : Step(save(hex_view, write_ok))

Next ==
    \/ DoDraw
    \/ DoArrowDown
    \/ DoArrowUp
    \/ DoArrowLeft
    \/ DoArrowRight
    \/ DoHome
    \/ DoEnd
    \/ DoSwitchMode
    \/ DoPageUp
    \/ DoPageDown
    \/ DoClick
    \/ DoTypeChar
    \/ DoUndo
    \/ DoRedo
    \/ DoFindNext
    \/ DoFindPrevious
    \/ DoSave

Spec == Init /\ [][Next]_vars

\* Sessions that are navigated and searched, never edited.
InitSearch == app = AppModel_init /\ disk = <<>> /\ row_loop = no_loop /\ \E b \in SearchBuffers : hex_view = new(b)

NextSearch ==
    \/ DoDraw
    \/ DoArrowDown
    \/ DoArrowUp
    \/ DoArrowLeft
    \/ DoArrowRight
    \/ DoHome
    \/ DoEnd
    \/ DoSwitchMode
    \/ DoPageUp
    \/ DoPageDown
    \/ DoClick
    \/ DoFindNext
    \/ DoFindPrevious

SpecSearch == InitSearch /\ [][NextSearch]_vars

\* A session that is edited and saved, with the file it is saved to.
\* std::fs::write: the file holds the bytes written, or what it held when the
\* write fails.
write(contents, data, write_ok) == IF write_ok THEN data ELSE contents

InitDisk == app = AppModel_init /\ row_loop = no_loop /\ \E b \in Buffers : hex_view = new(b) /\ disk = b

\* Action::Save with the file: the marker is set and the buffer written.
DoSaveFile ==
    \E write_ok \in BOOLEAN :
        LET r == save(hex_view, write_ok)
        IN  /\ Running
            /\ hex_view' = r
            /\ disk' = write(disk, hex_view.data, write_ok)
            /\ UNCHANGED <<app, row_loop>>

NextDisk ==
    \/ DoTypeChar
    \/ DoUndo
    \/ DoRedo
    \/ DoSwitchMode
    \/ DoArrowRight
    \/ DoSaveFile

SpecDisk == InitDisk /\ [][NextDisk]_vars

\* A session on a file of several rows that is navigated, searched and
\* scrolled.
InitScroll == app = AppModel_init /\ disk = <<>> /\ row_loop = no_loop /\ hex_view = new(ScrollBuffer)

\* A repaint after the scrollable has moved, by the user or by a scroll task.
DoScroll == \E vp \in ScrollViewports : Step(draw(hex_view, vp))

\* The widget gets or loses the keyboard focus.
DoSetFocus == \E focus \in BOOLEAN : Step(SetFocus(hex_view, focus))

NextScroll ==
    \/ DoScroll
    \/ DoSetFocus
    \/ DoArrowDown
    \/ DoArrowUp
    \/ DoArrowLeft
    \/ DoArrowRight
    \/ DoHome
    \/ DoEnd
    \/ DoSwitchMode
    \/ DoPageUp
    \/ DoPageDown
    \/ DoFindNext
    \/ DoFindPrevious

SpecScroll == InitScroll /\ [][NextScroll]_vars

\* One call of numbers_in_row, its loop taken one iteration at a time, for a
\* cell measure and a viewport width.
InitLoop ==
    /\ app = AppModel_init
    /\ disk = <<>>
    /\ hex_view = new(<<65, 66>>)
    /\ \E fm \in LoopMeasures, width \in 0..MaxWidth :
           row_loop = [pc |-> "loop", i |-> 2, font_measure |-> fm, width |-> width,
                       result |-> 0]

\* An iteration whose row is not wider than the viewport: for i in 2.. goes on.
\* The counter is followed up to MaxWidth.
LoopNext ==
    /\ row_loop.pc = "loop"
    /\ ~(row_width(row_loop.i, row_loop.font_measure) > row_loop.width)
    /\ row_loop.i <= MaxWidth
    /\ row_loop' = [row_loop EXCEPT !.i = @ + 1]
    /\ UNCHANGED <<hex_view, app, disk>>

\* An iteration whose row is wider than the viewport: return i - 1.
LoopReturn ==
    /\ row_loop.pc = "loop"
    /\ row_width(row_loop.i, row_loop.font_measure) > row_loop.width
    /\ row_loop' = [row_loop EXCEPT !.pc = "done", !.result = row_loop.i - 1]
    /\ UNCHANGED <<hex_view, app, disk>>

NextLoop ==
    \/ LoopNext
    \/ LoopReturn

\* The thread that runs the loop goes on running it.
SpecLoop == InitLoop /\ [][NextLoop]_vars /\ WF_vars(NextLoop)

\* A session whose window is resized and whose font size is changed.
InitLayout == app = AppModel_init /\ disk = <<>> /\ row_loop = no_loop /\ hex_view = new(<<65, 66>>)

DoResize == \E vp \in LayoutViewports : Step(draw(hex_view, vp))

DoUpdateFont == \E measure \in FontMeasures : Step(update_font(hex_view, measure))

NextLayout ==
    \/ DoResize
    \/ DoUpdateFont

SpecLayout == InitLayout /\ [][NextLayout]_vars

\* The application with its tabs.
AppRunning == app.panic = "none"

\* The commands on the stacks of the first n tabs.
RECURSIVE Commands(_, _)
Commands(a, n) ==
    IF n = 0 THEN 0
    ELSE Len(a.tab_model[n].hex_view.undo_buffer)
           + Len(a.tab_model[n].hex_view.redo_buffer) + Commands(a, n - 1)

\* The application goes to a.
AppStep(a) ==
    /\ AppRunning
    /\ Len(a.tab_model) <= Cardinality(Paths)
    /\ \A i \in DOMAIN a.tab_model : a.tab_model[i].hex_view.position <= MaxPos
    /\ Commands(a, Len(a.tab_model)) <= MaxTabCommands
    /\ app' = a
    /\ UNCHANGED <<hex_view, disk, row_loop>>

InitApp == app = AppModel_init /\ disk = <<>> /\ row_loop = no_loop /\ hex_view = new(<<>>)

DoOpenFile ==
    \E path \in Paths, canonical_ok \in BOOLEAN :
        \E read \in ReadResults(path) : AppStep(open_tab(app, path, canonical_ok, read))

DoTabActivate == \E entity \in DOMAIN app.tab_model : AppStep(TabActivate(app, entity))

DoHexAction == \E msg \in Messages : AppStep(HexAction(app, msg))

DoAppSave ==
    \E entity_opt \in 0..Len(app.tab_model), write_ok \in BOOLEAN :
        AppStep(Save(app, entity_opt, write_ok))

DoAppUndo == AppStep(Undo(app))

DoAppRedo == AppStep(Redo(app))

DoSearchPatternChanged == \E value \in Patterns : AppStep(SearchPatternChanged(app, value))

DoAppFindNext == AppStep(FindNext(app))

DoAppFindPrevious == AppStep(FindPrevious(app))

NextApp ==
    \/ DoOpenFile
    \/ DoTabActivate
    \/ DoHexAction
    \/ DoAppSave
    \/ DoAppUndo
    \/ DoAppRedo
    \/ DoSearchPatternChanged
    \/ DoAppFindNext
    \/ DoAppFindPrevious

SpecApp == InitApp /\ [][NextApp]_vars

\* The application with tabs that are edited, saved and closed.
PromptOpen == app.dialog_page_opt.page = "PromptSaveClose"

DoTabClose == \E entity_opt \in 0..Len(app.tab_model) : AppStep(TabClose(app, entity_opt))

\* The Save button of the prompt.
DoPromptSave ==
    \E write_ok \in BOOLEAN :
        PromptOpen /\ AppStep(Save(app, app.dialog_page_opt.entity, write_ok))

\* The Discard button of the prompt.
DoPromptDiscard == PromptOpen /\ AppStep(TabCloseForce(app, app.dialog_page_opt.entity))

\* The Cancel button of the prompt.
DoPromptCancel == PromptOpen /\ AppStep(DialogCancel(app))

NextClose ==
    \/ DoOpenFile
    \/ DoTabActivate
    \/ DoHexAction
    \/ DoAppSave
    \/ DoTabClose
    \/ DoPromptSave
    \/ DoPromptDiscard
    \/ DoPromptCancel

SpecClose == InitApp /\ [][NextClose]_vars

\* ------------------------------------------------------------------ properties
\* An edit step: the mode is switched when it differs, then ch is typed.
Edits == {"Hex", "Ascii"} \X Keys

EditStep(s, e) ==
    IF s.in_hex = e[1] THEN TypeChar(s, e[2]) ELSE TypeChar(SwitchMode(s), e[2])

\* The step commits: no panic, and one more command is on the undo stack.
Committed(s, e) ==
    /\ s.panic = "none"
    /\ EditStep(s, e).panic = "none"
    /\ Len(EditStep(s, e).undo_buffer) = Len(s.undo_buffer) + 1

EditSeqs == UNION {[1..n -> Edits] : n \in 1..MaxEdits}

RECURSIVE TypeSeq(_, _)
TypeSeq(s, es) ==
    IF es = <<>> THEN s ELSE TypeSeq(EditStep(s, Head(es)), Tail(es))

RECURSIVE AllCommitted(_, _)
AllCommitted(s, es) ==
    \/ es = <<>>
    \/ /\ Committed(s, Head(es))
       /\ AllCommitted(EditStep(s, Head(es)), Tail(es))

RECURSIVE UndoN(_, _)
UndoN(s, n) == IF n = 0 THEN s ELSE UndoN(undo(s), n - 1)

\* C1: from every reachable session state, n committed edits followed by n
\* undo() calls leave every buffer byte and the cursor position as they were
\* before the first of the edits.
C1_RoundTrip ==
    \A es \in EditSeqs :
        (Running /\ AllCommitted(hex_view, es)) =>
            LET r == UndoN(TypeSeq(hex_view, es), Len(es))
            IN  /\ r.panic = "none"
                /\ r.data = hex_view.data
                /\ r.position = hex_view.position

\* C1 witness: two edits were committed and both undone: the redo stack holds
\* them, the second changed a byte the first had changed, and the session can
\* commit two more edits that change the buffer.
C1_Witness ==
    /\ Running
    /\ hex_view.undo_buffer = <<>>
    /\ Len(hex_view.redo_buffer) = 2
    /\ hex_view.redo_buffer[1].position = hex_view.redo_buffer[2].position
    /\ hex_view.redo_buffer[2].new_value # hex_view.redo_buffer[2].old_value
    /\ hex_view.data = <<65, 66>>
    /\ \E es \in EditSeqs :
           /\ Len(es) = 2
           /\ AllCommitted(hex_view, es)
           /\ TypeSeq(hex_view, es).data # hex_view.data

\* The command undo() would pop.
TopUndo == hex_view.undo_buffer[Len(hex_view.undo_buffer)]

\* C2 as stated: in every reachable state with a non-empty undo stack, undo()
\* followed at once by redo() leaves the buffer bytes and the cursor position
\* as they were before the undo().
C2_UndoRedoRestoresCursor ==
    (Running /\ hex_view.undo_buffer # <<>>) =>
        LET r == redo(undo(hex_view))
        IN  /\ r.data = hex_view.data
            /\ r.position = hex_view.position

\* C2 amended: undo() followed at once by redo() leaves the buffer bytes and
\* both stacks as they were and puts the cursor at the redone command's
\* new_caret_pos (where it was before the undo() only if it had not moved
\* since that command was applied).
C2_UndoRedoRestoresBuffer ==
    (Running /\ hex_view.undo_buffer # <<>>) =>
        LET r == redo(undo(hex_view))
        IN  /\ r.panic = "none"
            /\ r.data = hex_view.data
            /\ r.undo_buffer = hex_view.undo_buffer
            /\ r.redo_buffer = hex_view.redo_buffer
            /\ r.position = TopUndo.new_caret_pos
            /\ (hex_view.position = TopUndo.new_caret_pos => r.position = hex_view.position)

\* C2 witness: a command that changed a byte is on the undo stack, commands
\* are on the redo stack too, and the cursor has been moved since.
C2_Witness ==
    /\ Running
    /\ hex_view.undo_buffer # <<>>
    /\ hex_view.redo_buffer # <<>>
    /\ TopUndo.new_value # TopUndo.old_value
    /\ undo(hex_view).data # hex_view.data
    /\ hex_view.position # TopUndo.new_caret_pos

\* C3: with a non-empty buffer the cursor position lies in [0, 2*len - 1] in
\* every reachable state.
C3_CursorInRange ==
    (hex_view.panic = "none" /\ len(hex_view) > 0) =>
        /\ 0 <= hex_view.position
        /\ hex_view.position <= 2 * len(hex_view) - 1

\* C4: with a non-empty buffer TypeChar never indexes the buffer out of range.
C4_TypeCharInRange ==
    len(hex_view) > 0 => hex_view.panic # "TypeChar"

\* C5: a save whose write fails leaves is_dirty() as it was before the call.
C5_FailedSaveKeepsDirty ==
    [][(Running /\ hex_view' = save(hex_view, FALSE)
          /\ save_result(hex_view, FALSE) = "Err")
       => is_dirty(hex_view') = is_dirty(hex_view)]_vars

\* A step that commits an edit, pops the undo stack or pops the redo stack.
CommitStep ==
    \E ch \in Chars :
        /\ hex_view' = TypeChar(hex_view, ch)
        /\ Len(hex_view'.undo_buffer) = Len(hex_view.undo_buffer) + 1

UndoStep == hex_view.undo_buffer # <<>> /\ hex_view' = undo(hex_view)

RedoStep == hex_view.redo_buffer # <<>> /\ hex_view' = redo(hex_view)

\* C6 as stated: is_dirty() is false right after a successful save, and once
\* false it stays false across every step that is not a commit.
C6_CleanUntilCommit ==
    [][/\ Running => ~is_dirty(save(hex_view, TRUE))
       /\ (Running /\ ~is_dirty(hex_view) /\ ~CommitStep) => ~is_dirty(hex_view')]_vars

\* C6 amended: is_dirty() is false right after a successful save, and once
\* false it stays false across every step that is not a commit, an undo that
\* pops a command or a redo that pops one (cursor moves, clicks, paging, mode
\* toggles, searches, repaints, further saves, keystrokes that commit nothing).
C6_CleanUntilStackChange ==
    [][/\ Running => ~is_dirty(save(hex_view, TRUE))
       /\ (Running /\ ~is_dirty(hex_view) /\ ~(CommitStep \/ UndoStep \/ RedoStep))
              => ~is_dirty(hex_view')]_vars

\* C6 witness: the session was saved with two commands on the undo stack, is
\* clean, and the cursor and the mode have been changed since the last edit.
C6_Witness ==
    /\ Running
    /\ hex_view.last_save = 2
    /\ ~is_dirty(hex_view)
    /\ hex_view.position # TopUndo.new_caret_pos
    /\ hex_view.in_hex = "Ascii"
    /\ TopUndo.new_caret_pos = TopUndo.old_caret_pos + 1

\* C7: after a save at depth d, an undo and a commit of a different edit that
\* brings the undo stack back to depth d, is_dirty() is true.
C7_DivergedHistoryIsDirty ==
    \A e \in Edits :
        LET saved == save(hex_view, TRUE)
            undone == undo(saved)
            edited == EditStep(undone, e)
        IN  (/\ Running
             /\ hex_view.undo_buffer # <<>>
             /\ Committed(undone, e)
             /\ edited.undo_buffer # saved.undo_buffer
             /\ edited.data # saved.data)
            => is_dirty(edited)

\* The needle is at offset i of the data, byte for byte.
MatchAt(data, i, needle) ==
    /\ i + Len(needle) <= Len(data)
    /\ SubSeq(data, i + 1, i + Len(needle)) = needle

\* C8: for a non-empty needle find_next from the cursor's byte k finds the
\* smallest offset i >= k where the needle is, and finds nothing (the cursor
\* stays) when there is none; e.g. in 00 AB CD AB CD the needle AB CD is found
\* at 1 from offset 0 and at 3 from offset 2.
C8_FindNextSmallest ==
    /\ find_next_loop(<<0, 171, 205, 171, 205>>, 0, <<171, 205>>) = 1
    /\ find_next_loop(<<0, 171, 205, 171, 205>>, 2, <<171, 205>>) = 3
    /\ \A needle \in Needles \ {<<>>} :
           Running =>
               LET k == hex_view.position \div 2
                   M == {i \in k..(len(hex_view) - 1) : MatchAt(hex_view.data, i, needle)}
               IN  IF M = {}
                   THEN /\ ~find_next_found(hex_view, needle)
                        /\ find_next(hex_view, needle) = hex_view
                   ELSE /\ find_next_found(hex_view, needle)
                        /\ find_next_match(hex_view, needle) = Min(M)
                        /\ find_next_match(hex_view, needle) >= k
                        /\ find_next(hex_view, needle).position = 2 * Min(M)

\* C8 witness: the cursor has been moved, a needle is in the buffer both
\* before and after the cursor's byte, not at the cursor's byte, and find_next
\* moves the cursor forward to it.
C8_Witness ==
    /\ Running
    /\ hex_view.position > 0
    /\ \E needle \in Needles \ {<<>>} :
           LET k == hex_view.position \div 2
           IN  /\ \E i \in 0..(k - 1) : MatchAt(hex_view.data, i, needle)
               /\ ~MatchAt(hex_view.data, k, needle)
               /\ \E i \in (k + 1)..(len(hex_view) - 1) : MatchAt(hex_view.data, i, needle)
               /\ find_next(hex_view, needle).position > hex_view.position

\* C9: for a non-empty needle find_previous from the cursor's byte k finds the
\* largest offset i < k where the needle is, and finds nothing when there is
\* none (stated for non-empty buffers).
C9_FindPreviousLargest ==
    \A needle \in Needles \ {<<>>} :
        (Running /\ len(hex_view) > 0) =>
            LET k == hex_view.position \div 2
                M == {i \in 0..(k - 1) : MatchAt(hex_view.data, i, needle)}
                r == find_previous(hex_view, needle)
            IN  /\ r.panic = "none"
                /\ IF M = {}
                   THEN ~find_previous_found(hex_view, needle) /\ r = hex_view
                   ELSE /\ find_previous_found(hex_view, needle)
                        /\ find_previous_match(hex_view, needle) = Max(M)
                        /\ r.position = 2 * Max(M)

\* C10: find_next and find_previous with an empty needle find nothing and
\* leave the cursor where it is.
C10_EmptyNeedleNoMatch ==
    Running =>
        /\ ~find_next_found(hex_view, <<>>)
        /\ find_next(hex_view, <<>>).position = hex_view.position
        /\ ~find_previous_found(hex_view, <<>>)
        /\ find_previous(hex_view, <<>>).position = hex_view.position

\* C11: when find_next or find_previous matches at byte offset m, the cursor
\* position becomes 2*m, the high nibble of the first matched byte, and the
\* edit mode and everything else of the session are left as they were.
C11_MatchMovesToHighNibble ==
    /\ \A needle \in Needles :
           (Running /\ find_next_found(hex_view, needle)) =>
               find_next(hex_view, needle) =
                   [hex_view EXCEPT !.position = 2 * find_next_match(hex_view, needle)]
    /\ \A needle \in Needles \ {<<>>} :
           Running =>
               LET k == hex_view.position \div 2
                   N == {i \in k..(len(hex_view) - 1) : MatchAt(hex_view.data, i, needle)}
                   P == {i \in 0..(k - 1) : MatchAt(hex_view.data, i, needle)}
               IN  /\ N # {} =>
                          find_next(hex_view, needle) =
                              [hex_view EXCEPT !.position = 2 * Min(N)]
                   /\ (P # {} /\ k <= len(hex_view)) =>
                          find_previous(hex_view, needle) =
                              [hex_view EXCEPT !.position = 2 * Max(P)]

\* C11 witness: the session is in Ascii mode with the cursor on a low nibble,
\* and a needle is in the buffer both before the cursor's byte and after it,
\* so that either search moves the cursor.
C11_Witness ==
    /\ Running
    /\ hex_view.in_hex = "Ascii"
    /\ hex_view.position % 2 = 1
    /\ \E needle \in Needles \ {<<>>} :
           LET k == hex_view.position \div 2
           IN  /\ k < len(hex_view)
               /\ ~MatchAt(hex_view.data, k, needle)
               /\ \E i \in (k + 1)..(len(hex_view) - 1) : MatchAt(hex_view.data, i, needle)
               /\ \E i \in 0..(k - 1) : MatchAt(hex_view.data, i, needle)
               /\ find_next(hex_view, needle).position > hex_view.position
               /\ find_previous(hex_view, needle).position < hex_view.position - 1

\* C12: for a non-empty buffer MoveCaret(p) sets the cursor position to
\* min(p, 2*len - 1): positions up to 2*len - 1 are taken as they are, larger
\* ones saturate at 2*len - 1.
C12_MoveCaretSaturates ==
    \A p \in 0..(MaxPos + 2), w \in BOOLEAN :
        (Running /\ len(hex_view) > 0) =>
            LET r == MoveCaret(hex_view, p, w)
            IN  /\ r.panic = "none"
                /\ r.position = Min({p, 2 * len(hex_view) - 1})

\* C13: with the cursor inside a non-empty buffer, ArrowLeft at position 0 and
\* ArrowRight at the last position 2*len - 1 leave the position as it is, and
\* at every other position they change it by exactly -1 and +1.
C13_LeftRightSaturate ==
    \A w \in BOOLEAN :
        (Running /\ len(hex_view) > 0 /\ hex_view.position <= 2 * len(hex_view) - 1) =>
            /\ ArrowLeft(hex_view, w).position =
                   IF hex_view.position = 0 THEN 0 ELSE hex_view.position - 1
            /\ ArrowRight(hex_view, w).position =
                   IF hex_view.position = 2 * len(hex_view) - 1
                   THEN hex_view.position ELSE hex_view.position + 1

\* The scenario of the specification: ten bytes, a viewport 55 pixels wide
\* (four bytes per row), the cursor at position 10.
ScenarioMoveDown ==
    [new(<<0, 1, 2, 3, 4, 5, 6, 7, 8, 9>>) EXCEPT
        !.position = 10, !.viewport = [y |-> 0, width |-> 55, height |-> 2]]

\* C14: with the cursor inside a non-empty buffer, ArrowDown sets the position
\* to min(position + 2*numbers_in_row, 2*len - 1) and ArrowUp sets it to
\* max(position - 2*numbers_in_row, 0); with ten bytes, four bytes per row and
\* the cursor at 10, ArrowDown gives 18.
C14_UpDownSaturate ==
    /\ numbers_in_row(ScenarioMoveDown) = 4
    /\ ArrowDown(ScenarioMoveDown, TRUE).position = 18
    /\ \A w \in BOOLEAN :
           (Running /\ len(hex_view) > 0 /\ hex_view.position <= 2 * len(hex_view) - 1) =>
               LET n == numbers_in_row(hex_view)
               IN  /\ ArrowDown(hex_view, w).position =
                          Min({hex_view.position + 2 * n, 2 * len(hex_view) - 1})
                   /\ ArrowUp(hex_view, w).position =
                          Max({hex_view.position - 2 * n, 0})

\* C15: with the cursor inside a non-empty buffer, PageDown moves it forward by
\* line_count * numbers_in_row * 2 and never past the last position 2*len - 1,
\* and PageUp moves it to max(position - line_count * numbers_in_row * 2, 0).
C15_PageSaturates ==
    (Running /\ len(hex_view) > 0 /\ hex_view.position <= 2 * len(hex_view) - 1) =>
        LET delta == line_count(hex_view) * numbers_in_row(hex_view) * 2
        IN  /\ PageDown(hex_view).position <= 2 * len(hex_view) - 1
            /\ PageDown(hex_view).position =
                   Min({hex_view.position + delta, 2 * len(hex_view) - 1})
            /\ PageUp(hex_view).position = Max({hex_view.position - delta, 0})

AtZero(r) == r.panic = "none" /\ r.position = 0

\* C17: with an empty buffer and the cursor at 0, every cursor movement
\* (MoveCaret, the arrows, Home and End with and without control, PageUp,
\* PageDown) completes without a panic and leaves the position at 0.
C17_EmptyBufferStaysAtZero ==
    (Running /\ len(hex_view) = 0 /\ hex_view.position = 0) =>
        /\ AtZero(PageUp(hex_view))
        /\ AtZero(PageDown(hex_view))
        /\ \A w \in BOOLEAN :
               /\ \A p \in 0..MaxPos : AtZero(MoveCaret(hex_view, p, w))
               /\ AtZero(ArrowLeft(hex_view, w))
               /\ AtZero(ArrowRight(hex_view, w))
               /\ AtZero(ArrowUp(hex_view, w))
               /\ AtZero(ArrowDown(hex_view, w))
               /\ \A c \in BOOLEAN :
                      AtZero(Home(hex_view, c, w)) /\ AtZero(End(hex_view, c, w))

\* The value of the hex digits '0', '5', 'F' and 'a'.
HexDigitValue == (48 :> 0) @@ (53 :> 5) @@ (70 :> 15) @@ (97 :> 10)

\* C18: in Hex mode with the cursor at nibble position p on a byte of the
\* buffer, typing hex digit d replaces only the addressed nibble of byte p/2
\* (the high one when p is even, the low one when p is odd), leaves the other
\* nibble and every other byte as they were and moves the cursor to p + 1;
\* [0x41,0x42,0x43] at position 0 with '5' becomes [0x51,0x42,0x43] at
\* position 1, and one undo restores both.
C18_HexDigitReplacesNibble ==
    /\ LET r == TypeChar(new(<<65, 66, 67>>), 53)
       IN  /\ r.data = <<81, 66, 67>> /\ r.position = 1
           /\ undo(r).data = <<65, 66, 67>> /\ undo(r).position = 0
    /\ \A d \in DOMAIN HexDigitValue :
           LET p == hex_view.position
               k == p \div 2
               r == TypeChar(hex_view, d)
           IN  (Running /\ hex_view.in_hex = "Hex" /\ k < len(hex_view)) =>
                   /\ r.panic = "none"
                   /\ r.position = p + 1
                   /\ r.in_hex = "Hex"
                   /\ Len(r.data) = len(hex_view)
                   /\ \A j \in 1..len(hex_view) : j # k + 1 => r.data[j] = hex_view.data[j]
                   /\ IF p % 2 = 0
                      THEN /\ r.data[k + 1] \div 16 = HexDigitValue[d]
                           /\ r.data[k + 1] % 16 = hex_view.data[k + 1] % 16
                      ELSE /\ r.data[k + 1] % 16 = HexDigitValue[d]
                           /\ r.data[k + 1] \div 16 = hex_view.data[k + 1] \div 16

\* C18 witness: in Hex mode the last command typed '5' on the high nibble of
\* the cursor's byte and left the cursor on its low nibble, where the next
\* digit goes.
C18_Witness ==
    /\ Running
    /\ hex_view.in_hex = "Hex"
    /\ hex_view.undo_buffer # <<>>
    /\ hex_view.position % 2 = 1
    /\ hex_view.position \div 2 < len(hex_view)
    /\ TopUndo.position = hex_view.position \div 2
    /\ TopUndo.new_caret_pos = hex_view.position
    /\ TopUndo.old_caret_pos = hex_view.position - 1
    /\ TopUndo.new_value # TopUndo.old_value
    /\ hex_view.data[hex_view.position \div 2 + 1] \div 16 = 5
    /\ TypeChar(hex_view, 97).data[hex_view.position \div 2 + 1] = 90

\* Characters typed in Ascii mode: ' ', '5', 'g' and '~'.
AsciiKeys == {32, 53, 103, 126}

\* C19: in Ascii mode with the cursor at position p on a byte of the buffer,
\* typing a character replaces the whole byte p/2 with the character's byte
\* value whatever p mod 2 is, leaves every other byte as it was and moves the
\* cursor to the first nibble of the next byte, 2*(p/2) + 2.
C19_AsciiReplacesByte ==
    \A ch \in AsciiKeys :
        LET p == hex_view.position
            k == p \div 2
            r == TypeChar(hex_view, ch)
        IN  (Running /\ hex_view.in_hex = "Ascii" /\ k < len(hex_view)) =>
                /\ r.panic = "none"
                /\ r.data = [hex_view.data EXCEPT ![k + 1] = ch]
                /\ r.position = 2 * k + 2
                /\ r.position % 2 = 0
                /\ r.in_hex = "Ascii"

\* C19 witness: in Ascii mode a character has been typed, the cursor is now on
\* the low nibble of a byte, and typing 'g' there replaces that byte.
C19_Witness ==
    /\ Running
    /\ hex_view.in_hex = "Ascii"
    /\ hex_view.undo_buffer # <<>>
    /\ TopUndo.new_caret_pos = 2 * TopUndo.position + 2
    /\ TopUndo.new_value = 53
    /\ hex_view.position % 2 = 1
    /\ hex_view.position \div 2 < len(hex_view)
    /\ TypeChar(hex_view, 103).data # hex_view.data
    /\ TypeChar(hex_view, 103).position = hex_view.position + 1

\* C20: a keystroke that commits an edit (any key in Ascii mode, a hex digit
\* in Hex mode, on a byte of the buffer) puts the new byte value in the buffer,
\* pushes exactly one command onto the undo stack and empties the redo stack,
\* so that nothing can be redone after it.
C20_CommitClearsRedo ==
    \A e \in Edits :
        LET s == IF hex_view.in_hex = e[1] THEN hex_view ELSE SwitchMode(hex_view)
            k == s.position \div 2
            r == TypeChar(s, e[2])
            n == Len(s.undo_buffer)
        IN  (Running /\ k < len(s) /\ (e[1] = "Ascii" \/ is_ascii_hexdigit(e[2]))) =>
                /\ r.panic = "none"
                /\ Len(r.undo_buffer) = n + 1
                /\ SubSeq(r.undo_buffer, 1, n) = s.undo_buffer
                /\ r.undo_buffer[n + 1].position = k
                /\ r.undo_buffer[n + 1].old_value = s.data[k + 1]
                /\ r.data[k + 1] = r.undo_buffer[n + 1].new_value
                /\ e[1] = "Ascii" => r.data[k + 1] = e[2]
                /\ r.redo_buffer = <<>>
                /\ redo(r) = r

\* C20 witness: a command is on the undo stack, another one was undone and is
\* on the redo stack, and the next keystroke commits an edit that changes the
\* buffer.
C20_Witness ==
    /\ Running
    /\ hex_view.undo_buffer # <<>>
    /\ hex_view.redo_buffer # <<>>
    /\ hex_view.position \div 2 < len(hex_view)
    /\ Len(TypeChar(hex_view, 53).undo_buffer) = Len(hex_view.undo_buffer) + 1
    /\ TypeChar(hex_view, 53).data # hex_view.data
    /\ redo(hex_view) # hex_view

\* The command redo() would pop.
TopRedo == hex_view.redo_buffer[Len(hex_view.redo_buffer)]

\* s without the last element.
Front(s) == SubSeq(s, 1, Len(s) - 1)

\* C21: undo() on an empty undo stack and redo() on an empty redo stack change
\* nothing and do not fail; otherwise undo() pops the last committed command,
\* writes its old_value at its offset, sets the cursor to its old_caret_pos and
\* pushes it on the redo stack, and redo() pops the redo stack, writes
\* new_value, sets the cursor to new_caret_pos and pushes the command back on
\* the undo stack.
C21_UndoRedoSteps ==
    Running =>
        /\ IF hex_view.undo_buffer = <<>>
           THEN undo(hex_view) = hex_view
           ELSE undo(hex_view) =
                    [hex_view EXCEPT
                        !.data = [hex_view.data EXCEPT ![TopUndo.position + 1] = TopUndo.old_value],
                        !.position = TopUndo.old_caret_pos,
                        !.undo_buffer = Front(hex_view.undo_buffer),
                        !.redo_buffer = Append(hex_view.redo_buffer, TopUndo)]
        /\ IF hex_view.redo_buffer = <<>>
           THEN redo(hex_view) = hex_view
           ELSE redo(hex_view) =
                    [hex_view EXCEPT
                        !.data = [hex_view.data EXCEPT ![TopRedo.position + 1] = TopRedo.new_value],
                        !.position = TopRedo.new_caret_pos,
                        !.redo_buffer = Front(hex_view.redo_buffer),
                        !.undo_buffer = Append(hex_view.undo_buffer, TopRedo)]

\* C21 witness: one command is on each stack, they changed different bytes,
\* and both undo() and redo() change the buffer and the cursor.
C21_Witness ==
    /\ Running
    /\ Len(hex_view.undo_buffer) = 1
    /\ Len(hex_view.redo_buffer) = 1
    /\ TopUndo.position # TopRedo.position
    /\ undo(hex_view).data # hex_view.data
    /\ redo(hex_view).data # hex_view.data
    /\ undo(hex_view).position # hex_view.position
    /\ redo(hex_view).position # hex_view.position

\* n bytes fit in a row of the session's viewport: offset margin, n hex cells,
\* the gap and n characters are no wider than the viewport.
Fits(s, n) ==
    calc_offset_margin_width(s.font_measure) + n * calc_cell_width(s.font_measure)
        + hex_ascii_spacing + n * s.font_measure.width <= s.viewport.width

\* C22: for every cell measure and every viewport width, also widths too
\* small for one byte and the initial width 0, numbers_in_row is at least 1.
C22_AtLeastOneByte == numbers_in_row(hex_view) >= 1

\* C22 witness: the font has been changed and the window resized to a width
\* above 0 in which not even one byte fits.
C22_Witness ==
    /\ Running
    /\ hex_view.font_measure # font_measure
    /\ hex_view.viewport.width > 0
    /\ ~Fits(hex_view, 1)
    /\ numbers_in_row(hex_view) = 1

\* C23: for a fixed cell measure numbers_in_row does not decrease when the
\* viewport gets wider.
C23_MonotoneInWidth ==
    \A vp \in LayoutViewports :
        vp.width >= hex_view.viewport.width =>
            numbers_in_row(draw(hex_view, vp)) >= numbers_in_row(hex_view)

\* C23 witness: several bytes fit in a row, and some wider viewport takes at
\* least two more.
C23_Witness ==
    /\ Running
    /\ numbers_in_row(hex_view) >= 2
    /\ \E vp \in LayoutViewports :
           /\ vp.width > hex_view.viewport.width
           /\ numbers_in_row(draw(hex_view, vp)) >= numbers_in_row(hex_view) + 2

\* C24: whenever one byte fits, numbers_in_row is the largest n that fits: n
\* fits, n + 1 does not, and no larger count fits.
C24_LargestThatFits ==
    (Running /\ Fits(hex_view, 1)) =>
        LET n == numbers_in_row(hex_view)
        IN  /\ Fits(hex_view, n)
            /\ ~Fits(hex_view, n + 1)
            /\ \A m \in 1..MaxWidth : Fits(hex_view, m) => m <= n

\* C24 witness: the font has been changed and the viewport is exactly as wide
\* as two or more bytes need.
C24_Witness ==
    /\ Running
    /\ hex_view.font_measure # font_measure
    /\ numbers_in_row(hex_view) >= 2
    /\ Fits(hex_view, numbers_in_row(hex_view))
    /\ ~Fits([hex_view EXCEPT !.viewport.width = @ - 1], numbers_in_row(hex_view))

\* Byte values written: 0, '5', 0x80 and 0xFF.
ByteValues == {0, 53, 128, 255}

\* C25: for every offset below the length and every byte value v, set_byte at
\* the offset followed by get_byte at the offset gives v.
C25_SetThenGet ==
    \A offset \in 0..(len(hex_view) - 1), v \in ByteValues :
        get_byte(set_byte(hex_view.data, offset, v), offset) = v

\* C25 witness: the last command wrote a new value into the second byte of the
\* buffer, and get_byte reads that value there.
C25_Witness ==
    /\ Running
    /\ hex_view.undo_buffer # <<>>
    /\ TopUndo.position = 1
    /\ TopUndo.new_value # TopUndo.old_value
    /\ get_byte(hex_view.data, TopUndo.position) = TopUndo.new_value
    /\ get_byte(hex_view.data, 0) = 65

\* C26: for every offset with offset + 3 below the length, get_u32 is
\* b[offset] + 2^8 b[offset+1] + 2^16 b[offset+2] + 2^24 b[offset+3] and
\* get_i32 is the same 32 bits read as a two's-complement value; when one of
\* the four bytes is past the end the read fails and gives no value.
C26_LittleEndianWords ==
    \A offset \in 0..(len(hex_view) + 1) :
        LET b(i) == hex_view.data[offset + i + 1]
            u == get_u32(hex_view.data, offset)
            s == get_i32(hex_view.data, offset)
        IN  IF offset + 3 < len(hex_view)
            THEN /\ u.ok /\ s.ok
                 /\ u.lo = b(0) + 256 * b(1)
                 /\ u.hi = b(2) + 256 * b(3)
                 /\ s.value % 65536 = u.lo
                 /\ (s.value \div 65536) % 65536 = u.hi
                 /\ s.value < 0 <=> b(3) >= 128
            ELSE ~u.ok /\ ~s.ok

\* C26 witness: the cursor has been moved to a byte from which four bytes can
\* be read, the most significant one is 0x80 or more (the signed value is
\* negative), and two bytes further the read runs past the end.
C26_Witness ==
    LET k == hex_view.position \div 2
    IN  /\ Running
        /\ k > 0
        /\ k + 3 < len(hex_view)
        /\ get_u32(hex_view.data, k).ok
        /\ get_u32(hex_view.data, k).hi >= 32768
        /\ get_i32(hex_view.data, k).value < 0
        /\ ~get_u32(hex_view.data, k + 2).ok

\* C29: save(), whether the write succeeds or fails, leaves the buffer, the
\* cursor, the undo stack and the redo stack as they were and only moves the
\* saved-depth marker to the undo depth, so every command committed before the
\* save can still be undone after it.
C29_SaveKeepsHistory ==
    \A write_ok \in BOOLEAN :
        Running =>
            LET r == save(hex_view, write_ok)
                n == Len(hex_view.undo_buffer)
            IN  /\ r = [hex_view EXCEPT !.last_save = n]
                /\ r.data = hex_view.data
                /\ r.position = hex_view.position
                /\ r.undo_buffer = hex_view.undo_buffer
                /\ r.redo_buffer = hex_view.redo_buffer
                /\ UndoN(r, n).undo_buffer = <<>>
                /\ UndoN(r, n).data = UndoN(hex_view, n).data

\* C29 witness: the session is dirty with two commands on the undo stack that
\* changed the buffer, and the cursor has been moved since the last edit.
C29_Witness ==
    /\ Running
    /\ Len(hex_view.undo_buffer) = 2
    /\ is_dirty(hex_view)
    /\ hex_view.position # TopUndo.new_caret_pos
    /\ UndoN(save(hex_view, TRUE), 2).data # hex_view.data
    /\ UndoN(save(hex_view, TRUE), 1).data # hex_view.data

\* The sessions of the tabs other than tab i.
OtherSessions(a, i) == [j \in DOMAIN a.tab_model \ {i} |-> a.tab_model[j].hex_view]

\* C27: with several tabs open, an edit, a cursor move or a mode toggle
\* (HexAction), undo, redo, find next and find previous applied to the active
\* tab, and a save applied to the active or to a named tab, leave the session
\* of every other tab (buffer, cursor, undo stack, redo stack, saved depth) as
\* it was.
C27_OtherSessionsUntouched ==
    AppRunning /\ is_tab(app, app.active) =>
        /\ \A msg \in Messages :
               OtherSessions(HexAction(app, msg), app.active) = OtherSessions(app, app.active)
        /\ OtherSessions(Undo(app), app.active) = OtherSessions(app, app.active)
        /\ OtherSessions(Redo(app), app.active) = OtherSessions(app, app.active)
        /\ OtherSessions(FindNext(app), app.active) = OtherSessions(app, app.active)
        /\ OtherSessions(FindPrevious(app), app.active) = OtherSessions(app, app.active)
        /\ \A write_ok \in BOOLEAN :
               /\ OtherSessions(Save(app, 0, write_ok), app.active)
                      = OtherSessions(app, app.active)
               /\ \A entity \in DOMAIN app.tab_model :
                      OtherSessions(Save(app, entity, write_ok), entity)
                          = OtherSessions(app, entity)

\* C27 witness: two tabs are open, both have been edited and are dirty, the
\* needle is found in the active tab, and undo changes the active tab.
C27_Witness ==
    /\ AppRunning
    /\ Len(app.tab_model) = 2
    /\ is_tab(app, app.active)
    /\ \A i \in DOMAIN app.tab_model :
           /\ app.tab_model[i].hex_view.undo_buffer # <<>>
           /\ is_dirty(app.tab_model[i].hex_view)
           /\ app.tab_model[i].hex_view.data # FileData(app.tab_model[i].path)
    /\ Undo(app).tab_model[app.active] # app.tab_model[app.active]
    /\ find_next_found(app.tab_model[app.active].hex_view, app.needle)

\* The paths of the open tabs.
OpenPaths(a) == {a.tab_model[i].path : i \in DOMAIN a.tab_model}

\* C28: when fs::read fails (or the path cannot be canonicalized) for a file
\* that is not open yet, open_tab creates no session: the tabs, the active tab
\* and the recent files are what they were.
C28_FailedOpenChangesNothing ==
    AppRunning =>
        \A path \in Paths \ OpenPaths(app) :
            LET failed == open_tab(app, path, TRUE, [ok |-> FALSE, data |-> <<>>])
                unknown == open_tab(app, path, FALSE, [ok |-> FALSE, data |-> <<>>])
            IN  /\ failed.tab_model = app.tab_model
                /\ failed.active = app.active
                /\ failed.recent_files = app.recent_files
                /\ unknown.tab_model = app.tab_model
                /\ unknown.active = app.active
                /\ unknown.recent_files = app.recent_files

\* C28 witness: one file is open and edited and leads the recent files, and
\* another file is not open.
C28_Witness ==
    /\ AppRunning
    /\ Len(app.tab_model) = 1
    /\ app.active = 1
    /\ app.recent_files = <<app.tab_model[1].path>>
    /\ is_dirty(app.tab_model[1].hex_view)
    /\ Paths \ OpenPaths(app) # {}

\* The character is one of 0-9, A-F, a-f.
IsHexChar(c) == c \in (48..57) \cup (65..70) \cup (97..102)

\* The value of a hex digit character.
NibbleOf(c) == IF c <= 57 THEN c - 48 ELSE IF c <= 70 THEN c - 55 ELSE c - 87

\* The hex digits of a pattern taken two by two, the first the high nibble.
PairedBytes(pattern) ==
    LET ds == SelectSeq(pattern, IsHexChar)
    IN  [k \in 1..(Len(ds) \div 2) |-> NibbleOf(ds[2 * k - 1]) * 16 + NibbleOf(ds[2 * k])]

\* C30: for every search pattern the conversion does not fail, and the needle
\* is the hex digits of the pattern paired two by two with the other
\* characters dropped, wherever the other characters stand.
C30_NeedleFromHexPairs ==
    /\ app.panic # "get_pattern_needle"
    /\ Len(SelectSeq(app.search_pattern, IsHexChar)) % 2 = 0 =>
           app.needle = PairedBytes(app.search_pattern)

\* The word AppModel::view shows for the cursor of a session: get_u32 at the
\* offset cursor.position.
data_u32(s) == get_u32(s.data, s.position)

\* C31: in every reachable state of an open session the integer readout for
\* the cursor reads only bytes of the buffer: get_u32 is never called at an
\* offset with offset + 3 >= length.
C31_ReadoutInRange ==
    Running => /\ hex_view.position + 3 < len(hex_view)
               /\ data_u32(hex_view).ok

\* C32: whenever is_dirty() is false, the buffer holds the bytes last written
\* by a successful save, or the bytes read from the file when there has been
\* no save: a session reported clean holds no edit that is not on disk.
C32_CleanMeansOnDisk ==
    (Running /\ ~is_dirty(hex_view)) => hex_view.data = disk

\* The top of the cursor's row, in pixels from the top of the content.
RowTop(s) == (s.position \div (numbers_in_row(s) * 2)) * s.font_measure.height

\* No pixel of the cursor's row is in the viewport scrolled to y.
RowOutside(s, y) ==
    \/ RowTop(s) + s.font_measure.height <= y
    \/ RowTop(s) >= y + s.viewport.height

\* The command took the session s to r and returned the task: if it moved the
\* cursor to a row outside the viewport, the task scrolls the row into view.
ScrollsIntoView(s, r, task) ==
    (r.position # s.position /\ RowOutside(r, s.viewport.y))
        => (task.scroll /\ ~RowOutside(r, task.y))

\* C33: with a window at least one row high, every command that moves the
\* cursor to a row outside the visible rows (MoveCaret, which the arrow, Home
\* and End keys send, PageUp, PageDown, FindNext, FindPrevious) returns a
\* scroll request that brings the cursor's row into view.
C33_ScrollFollowsCursor ==
    (Running /\ hex_view.viewport.height >= hex_view.font_measure.height) =>
        /\ \A p \in 0..(MaxPos + 2) :
               ScrollsIntoView(hex_view, MoveCaret(hex_view, p, TRUE),
                               MoveCaret_task(hex_view, p, TRUE))
        /\ ScrollsIntoView(hex_view, PageUp(hex_view), PageUp_task(hex_view))
        /\ ScrollsIntoView(hex_view, PageDown(hex_view), PageDown_task(hex_view))
        /\ \A needle \in Needles :
               /\ ScrollsIntoView(hex_view, find_next(hex_view, needle), update_tab_task)
               /\ ScrollsIntoView(hex_view, find_previous(hex_view, needle), update_tab_task)

\* Characters that are no hex digit: ' ', 'G' and 'g'.
NonHexKeys == {32, 71, 103}

\* C34: in Hex mode, with the cursor on a byte of the buffer, typing a
\* character that is no hex digit changes nothing: buffer, cursor, undo stack,
\* redo stack and dirty state are what they were before the keystroke.
C34_NonHexKeyChangesNothing ==
    (Running /\ hex_view.in_hex = "Hex" /\ hex_view.position \div 2 < len(hex_view)) =>
        \A ch \in NonHexKeys :
            LET r == TypeChar(hex_view, ch)
            IN  /\ r.data = hex_view.data
                /\ r.position = hex_view.position
                /\ r.undo_buffer = hex_view.undo_buffer
                /\ r.redo_buffer = hex_view.redo_buffer
                /\ is_dirty(r) = is_dirty(hex_view)
                /\ r = hex_view

\* C34 witness: in Hex mode the cursor is on the low nibble of a byte, the
\* session is dirty and both stacks hold a command.
C34_Witness ==
    /\ Running
    /\ hex_view.in_hex = "Hex"
    /\ hex_view.position \div 2 < len(hex_view)
    /\ hex_view.position % 2 = 1
    /\ hex_view.undo_buffer # <<>>
    /\ hex_view.redo_buffer # <<>>
    /\ is_dirty(hex_view)

\* The command took the session s to r without writing the buffer, either
\* stack or the saved-depth marker.
KeepsContents(s, r) ==
    /\ r.data = s.data
    /\ r.undo_buffer = s.undo_buffer
    /\ r.redo_buffer = s.redo_buffer
    /\ r.last_save = s.last_save

\* The points of the widget a click can land on.
ClickPoints(s) ==
    {[x |-> x, y |-> row * s.font_measure.height] :
        x \in ClickXs, row \in 0..(bounds(s).height \div s.font_measure.height)}

\* C35: MoveCaret, PageUp, PageDown, Click, SwitchMode, SetFocus, find_next
\* and find_previous leave every buffer byte, the undo stack, the redo stack
\* and the saved-depth marker as they were, and a search that finds no match
\* leaves the cursor where it was.
C35_NavigationKeepsContents ==
    Running =>
        /\ \A p \in 0..(MaxPos + 2), wrapping \in BOOLEAN :
               KeepsContents(hex_view, MoveCaret(hex_view, p, wrapping))
        /\ KeepsContents(hex_view, PageUp(hex_view))
        /\ KeepsContents(hex_view, PageDown(hex_view))
        /\ \A point \in ClickPoints(hex_view) : KeepsContents(hex_view, Click(hex_view, point))
        /\ KeepsContents(hex_view, SwitchMode(hex_view))
        /\ \A focus \in BOOLEAN : KeepsContents(hex_view, SetFocus(hex_view, focus))
        /\ \A needle \in Needles :
               /\ KeepsContents(hex_view, find_next(hex_view, needle))
               /\ KeepsContents(hex_view, find_previous(hex_view, needle))
               /\ ~find_next_found(hex_view, needle)
                      => find_next(hex_view, needle).position = hex_view.position
               /\ ~find_previous_found(hex_view, needle)
                      => find_previous(hex_view, needle).position = hex_view.position

\* C35 witness: the session has been edited and saved, both stacks hold a
\* command, the cursor is not at the start, and a search from the cursor finds
\* one needle and misses another, forwards and backwards.
C35_Witness ==
    /\ Running
    /\ hex_view.undo_buffer # <<>>
    /\ hex_view.redo_buffer # <<>>
    /\ hex_view.last_save > 0
    /\ hex_view.position > 0
    /\ \E needle \in Needles : ~find_next_found(hex_view, needle) /\ needle # <<>>
    /\ \E needle \in Needles : find_next_found(hex_view, needle)
    /\ \E needle \in Needles :
           find_previous_match(hex_view, needle) = -1 /\ needle # <<>>
    /\ \E needle \in Needles : find_previous_found(hex_view, needle)

\* C36: after a find_next that matched, the same find_next repeated at once
\* matches at the same offset and leaves the cursor, and the rest of the
\* session, where it is: the scan starts at the cursor's own byte.
C36_FindNextIdempotent ==
    \A needle \in Needles :
        (Running /\ find_next_found(hex_view, needle)) =>
            LET r == find_next(hex_view, needle)
            IN  /\ find_next_found(r, needle)
                /\ find_next_match(r, needle) = find_next_match(hex_view, needle)
                /\ find_next(r, needle).position = r.position
                /\ find_next(r, needle) = r

\* C36 witness: the cursor has been moved, a needle is found after the
\* cursor's byte, not at it, and is in the buffer once more after that match.
C36_Witness ==
    /\ Running
    /\ hex_view.position > 0
    /\ \E needle \in Needles \ {<<>>} :
           LET k == hex_view.position \div 2
               m == find_next_match(hex_view, needle)
           IN  /\ find_next_found(hex_view, needle)
               /\ m > k
               /\ \E i \in (m + 1)..(len(hex_view) - 1) : MatchAt(hex_view.data, i, needle)

\* The tabs without the one at place entity.
TabsWithout(a, entity) ==
    [j \in 1..(Len(a.tab_model) - 1) |->
        IF j < entity THEN a.tab_model[j] ELSE a.tab_model[j + 1]]

\* C37: TabClose on a tab whose session is dirty removes no tab: it activates
\* the tab and opens the save-changes prompt for it; TabClose on a clean tab
\* removes that tab and no other; and a dirty tab leaves the open tabs only by
\* a step that is TabCloseForce for that tab.
C37_DirtyTabNeedsForce ==
    [][AppRunning =>
         /\ \A entity_opt \in 0..Len(app.tab_model) :
                LET entity == IF entity_opt = 0 THEN app.active ELSE entity_opt
                    r == TabClose(app, entity_opt)
                IN  is_tab(app, entity) =>
                        IF is_dirty(app.tab_model[entity].hex_view)
                        THEN /\ r.tab_model = app.tab_model
                             /\ r.active = entity
                             /\ r.dialog_page_opt =
                                    [page |-> "PromptSaveClose", entity |-> entity]
                        ELSE r.tab_model = TabsWithout(app, entity)
         /\ \A i \in DOMAIN app.tab_model :
                (/\ is_dirty(app.tab_model[i].hex_view)
                 /\ app.tab_model[i].path \notin OpenPaths(app'))
                    => app' = TabCloseForce(app, i)]_vars

\* C37 witness: two tabs are open, the prompt is open for the first, which is
\* dirty and active with a changed buffer, and the other tab is clean.
C37_Witness ==
    /\ AppRunning
    /\ Len(app.tab_model) = 2
    /\ app.dialog_page_opt = [page |-> "PromptSaveClose", entity |-> 1]
    /\ app.active = 1
    /\ is_dirty(app.tab_model[1].hex_view)
    /\ app.tab_model[1].hex_view.data # FileData(app.tab_model[1].path)
    /\ ~is_dirty(app.tab_model[2].hex_view)

\* C38: with the save-changes prompt open for a tab, each of its three
\* actions, Save, Discard and Cancel, leaves no dialog open.
C38_PromptActionsDismiss ==
    (AppRunning /\ PromptOpen) =>
        LET entity == app.dialog_page_opt.entity
        IN  /\ \A write_ok \in BOOLEAN :
                   Save(app, entity, write_ok).dialog_page_opt.page = "None"
            /\ TabCloseForce(app, entity).dialog_page_opt.page = "None"
            /\ DialogCancel(app).dialog_page_opt.page = "None"

\* C39: for every character width from 0 on and every viewport width the loop
\* of numbers_in_row comes to its return: each further byte makes the row
\* wider by a positive amount, so the row of some counter is wider than the
\* viewport; and what it returns is what numbers_in_row gives.
C39_LoopTerminates ==
    /\ <>(row_loop.pc = "done")
    /\ [](row_loop.pc = "done" =>
            row_loop.result = numbers_in_row_loop(2, row_loop.font_measure, row_loop.width))
    /\ [][row_loop.pc = "loop" /\ row_loop'.pc = "loop" =>
            row_width(row_loop'.i, row_loop.font_measure)
                > row_width(row_loop.i, row_loop.font_measure)]_vars

\* C39 witness: with a character of width 0 the loop has gone through ten or
\* more iterations and returned.
C39_Witness ==
    /\ row_loop.pc = "done"
    /\ row_loop.font_measure.width = 0
    /\ row_loop.result >= 10

====
